---- MODULE Spec2Model ----
(***************************************************************************)
(* Inventory ledger / balance mechanism of the ERP backend.                *)
(*                                                                         *)
(* The database tables stock_ledgers, stock_balances, products, locations  *)
(* and stock_ledgers_archive are the committed state.  Every request runs  *)
(* in its own database session (app/database.py get_db); a session's       *)
(* uncommitted rows are invisible to every other session until COMMIT.     *)
(***************************************************************************)
EXTENDS Integers, FiniteSets, Sequences, TLC

(***************************************************************************)
(* Bounds of the model.                                                    *)
(***************************************************************************)
NumProducts == 1      \* rows of table products in the initial catalog
NumLocations == 2     \* rows of table locations in the initial catalog
NumProcs == 2         \* requests that can be in flight at the same time
MaxEntries == 2       \* ledger rows (uuid4 values) that can exist at a time
MaxTime == 2          \* ticks of the database clock
MaxQty == 2           \* largest quantity a request carries
MaxKeep == 1          \* largest --stock-ledgers retention, in clock ticks

NULL == 0

Procs == 1..NumProcs
ExistingProducts == 1..NumProducts
ExistingLocations == 1..NumLocations
\* ids a request can name: the catalog ids plus one id that names no row
ProductIds == 1..(NumProducts + 1)
LocationIds == 1..(NumLocations + 1)
Keys == ProductIds \X LocationIds

\* request bodies use any string as transaction_type (schemas/inventory.py:33)
TransactionTypeInputs == {"purchase"}
\* the closed enumeration of models/enums.py
TransactionType == {"purchase", "sale", "transfer", "adjustment", "production", "return"}

VARIABLES
    products,               \* ids of the rows of table products
    locations,              \* rows of table locations, by id
    stock_ledgers,          \* committed rows of table stock_ledgers
    stock_balances,         \* committed rows of table stock_balances, by (product_id, location_id)
    stock_ledgers_archive,  \* committed rows of table stock_ledgers_archive
    session,                \* per request slot: the open database session
    now,                    \* database clock
    last,                   \* the operation that acted last and what it answered
    permissions,            \* codes of the rows of table permissions
    roles,                  \* names of the rows of table roles
    role_permissions,       \* rows of table role_permissions, as (role name, permission code)
    users                   \* rows of table users with their user_roles, by id

vars == <<products, locations, stock_ledgers, stock_balances, stock_ledgers_archive,
          session, now, last, permissions, roles, role_permissions, users>>

db == <<products, locations, stock_ledgers, stock_balances, stock_ledgers_archive>>

\* the tables of app/models/auth.py
auth == <<permissions, roles, role_permissions, users>>

(***************************************************************************)
(* Helpers.                                                                *)
(***************************************************************************)
RECURSIVE SumQty(_)
SumQty(S) ==
    IF S = {} THEN 0
    ELSE LET e == CHOOSE x \in S : TRUE IN e.qty + SumQty(S \ {e})

KeyOf(row) == <<row.product_id, row.location_id>>

RowsOf(ledger, k) == {e \in ledger : KeyOf(e) = k}

SeqToSet(s) == {s[i] : i \in 1..Len(s)}

\* current_qty of a key as a reader sees it; an absent row reads as zero
BalQty(bal, k) == IF k \in DOMAIN bal THEN bal[k].current_qty ELSE 0

IdleSession == [pc |-> "idle", op |-> "none", rows |-> <<>>, pending |-> <<>>, waited |-> FALSE]

NoRequest == [op |-> "none", status |-> "none", product_id |-> NULL, location_id |-> NULL,
              from_location_id |-> NULL, qty |-> 0, waited |-> FALSE]

\* what `last` keeps of a request: the request body only of a movement
Answer(op, status, product_id, location_id, from_location_id, qty, waited) ==
    IF op = "create_stock_movement"
    THEN [op |-> op, status |-> status, product_id |-> product_id, location_id |-> location_id,
          from_location_id |-> from_location_id, qty |-> qty, waited |-> waited]
    ELSE [op |-> op, status |-> status, product_id |-> NULL, location_id |-> NULL,
          from_location_id |-> NULL, qty |-> 0, waited |-> waited]

\* ids of the ledger rows that exist, committed or not
UsedIds ==
    {e.id : e \in stock_ledgers \cup stock_ledgers_archive}
        \cup UNION {{r.id : r \in SeqToSet(session[q].rows)} : q \in Procs}

\* uuid.uuid4(): a value that is not among the used ones
uuid4(used) == CHOOSE i \in 1..(Cardinality(used) + 1) : i \notin used

\* variant: qty without a lower bound
StockLedgerCreateValid_unbounded(ledger) == ledger.qty \in Int

(***************************************************************************)
(* Request schemas (app/schemas/inventory.py).                             *)
(***************************************************************************)
\* StockLedgerBase: qty: int = Field(ge=0)
StockLedgerCreateValid(ledger) == ledger.qty >= 0

\* variant: the bound written as ge=0
StockMovementRequestValid_ge(movement) == movement.quantity >= 0

\* StockMovementRequest: quantity: int = Field(gt=0)
StockMovementRequestValid(movement) == movement.quantity > 0

(***************************************************************************)
(* ORM model StockLedger (app/models/inventory.py).                        *)
(***************************************************************************)
\* the mapped attributes of class StockLedger
StockLedgerAttributes ==
    {"id", "product_id", "location_id", "qty", "transaction_type", "ref_type", "ref_id",
     "created_at", "created_by", "product", "location", "creator"}

\* The declarative constructor accepts only keyword arguments that are
\* attributes of the mapped class and raises TypeError for any other.
StockLedgerInit(kwargs) == kwargs \subseteq StockLedgerAttributes

\* A row of stock_ledgers as the INSERT writes it: created_at is the server
\* default now(), created_by is never supplied by the handlers.
StockLedger(id, product_id, location_id, qty, transaction_type, ref_type, ref_id) ==
    [id |-> id, product_id |-> product_id, location_id |-> location_id, qty |-> qty,
     transaction_type |-> transaction_type, ref_type |-> ref_type, ref_id |-> ref_id,
     created_at |-> now, created_by |-> NULL]

\* A row of locations: of its columns only is_active is ever written after
\* the row is created.
Location(is_active) == [is_active |-> is_active]

\* foreign keys products.id and locations.id of stock_ledgers
ForeignKeysHold(row) == row.product_id \in products /\ row.location_id \in DOMAIN locations

(***************************************************************************)
(* Balance trigger on INSERT INTO stock_ledgers.                           *)
(***************************************************************************)
\* variant: the trigger stores the row's quantity instead of adding it
apply_overwrite(bal, row) ==
    LET k == KeyOf(row) IN
    [x \in DOMAIN bal \cup {k} |->
        IF x = k THEN [current_qty |-> row.qty, last_updated |-> row.created_at] ELSE bal[x]]

\* apply one inserted row to a balance table
apply(bal, row) ==
    LET k == KeyOf(row) IN
    IF k \in DOMAIN bal
    THEN [bal EXCEPT ![k] = [current_qty |-> @.current_qty + row.qty,
                             last_updated |-> row.created_at]]
    ELSE [x \in DOMAIN bal \cup {k} |->
            IF x = k THEN [current_qty |-> row.qty, last_updated |-> row.created_at]
            ELSE bal[x]]

RECURSIVE ApplyAll(_, _)
ApplyAll(bal, rows) ==
    IF rows = <<>> THEN bal ELSE ApplyAll(apply(bal, Head(rows)), Tail(rows))

\* the balance rows a transaction has written: the trigger ran inside it
Pending(rows) ==
    LET after == ApplyAll(stock_balances, rows)
    IN [k \in {KeyOf(r) : r \in SeqToSet(rows)} |-> after[k]]

\* variant: the balance row is read and written without a lock
RowLockFree_none(p, k) == TRUE

\* the trigger's write locks the balance row until the writer commits or rolls back
RowLockFree(p, k) ==
    \A q \in Procs \ {p} : ~(session[q].pc = "staged" /\ k \in DOMAIN session[q].pending)

LocksFree(p, rows) == \A r \in SeqToSet(rows) : RowLockFree(p, KeyOf(r))

\* the rows and balances visible after COMMIT of a session
Committed(bal, pending) ==
    [k \in DOMAIN bal \cup DOMAIN pending |-> IF k \in DOMAIN pending THEN pending[k] ELSE bal[k]]

(***************************************************************************)
(* Initial state: the catalog exists, no stock has moved.                  *)
(***************************************************************************)
InitInventory ==
    /\ products = ExistingProducts
    /\ locations = [l \in ExistingLocations |-> Location(TRUE)]
    /\ stock_ledgers = {}
    /\ stock_balances = <<>>
    /\ stock_ledgers_archive = {}
    /\ session = [p \in Procs |-> IdleSession]
    /\ now = 0
    /\ last = NoRequest

\* the tables of app/models/auth.py are created empty
Init ==
    /\ InitInventory
    /\ permissions = {}
    /\ roles = {}
    /\ role_permissions = {}
    /\ users = <<>>

\* the database clock advances
Tick ==
    /\ now < MaxTime
    /\ now' = now + 1
    /\ UNCHANGED <<auth, db, session, last>>

\* INSERT of the staged rows: the trigger runs, or waits for the row lock
Flush(p, op, rows) ==
    IF LocksFree(p, rows)
    THEN session' = [session EXCEPT ![p] =
            [pc |-> "staged", op |-> op, rows |-> rows, pending |-> Pending(rows), waited |-> FALSE]]
    ELSE session' = [session EXCEPT ![p] =
            [pc |-> "blocked", op |-> op, rows |-> rows, pending |-> <<>>, waited |-> TRUE]]

(***************************************************************************)
(* POST /stock-ledgers/ (app/routers/inventory.py create_stock_ledger).    *)
(***************************************************************************)
\* the keys of ledger.model_dump(exclude={"notes"})
LedgerCreateKwargs ==
    {"product_id", "location_id", "qty", "transaction_type", "ref_type", "ref_id"}

create_stock_ledger(p, ledger) ==
    /\ session[p].pc = "idle"
    /\ IF ~StockLedgerCreateValid(ledger)
       THEN /\ last' = Answer("create_stock_ledger", "422", ledger.product_id, ledger.location_id,
                              NULL, ledger.qty, FALSE)
            /\ UNCHANGED <<auth, db, session, now>>
       ELSE IF ~StockLedgerInit(LedgerCreateKwargs)
       THEN /\ last' = Answer("create_stock_ledger", "500", ledger.product_id, ledger.location_id,
                              NULL, ledger.qty, FALSE)
            /\ UNCHANGED <<auth, db, session, now>>
       ELSE LET db_ledger == StockLedger(uuid4(UsedIds), ledger.product_id, ledger.location_id, ledger.qty,
                                         ledger.transaction_type, ledger.ref_type, ledger.ref_id)
            IN IF ~ForeignKeysHold(db_ledger)
               THEN \* IntegrityError at commit, not caught: 500 Internal Server Error
                    /\ last' = [Answer("create_stock_ledger", "500", NULL, NULL, NULL, 0, FALSE)
                                    EXCEPT !.product_id = ledger.product_id,
                                           !.location_id = ledger.location_id]
                    /\ UNCHANGED <<auth, db, session, now>>
               ELSE /\ Cardinality(UsedIds) < MaxEntries
                    /\ Flush(p, "create_stock_ledger", <<db_ledger>>)
                    /\ UNCHANGED <<auth, db, now, last>>

\* a waiting INSERT goes on once the row lock is released
trigger_resume(p) ==
    /\ session[p].pc = "blocked"
    /\ LocksFree(p, session[p].rows)
    /\ session' = [session EXCEPT ![p].pc = "staged", ![p].pending = Pending(session[p].rows)]
    /\ UNCHANGED <<auth, db, now, last>>

\* variant: the ledger rows are committed, the balance writes are lost
commit_ledger_only(p) ==
    /\ session[p].pc = "staged"
    /\ stock_ledgers' = stock_ledgers \cup SeqToSet(session[p].rows)
    /\ session' = [session EXCEPT ![p] = IdleSession]
    /\ last' = Answer(session[p].op, "200", NULL, NULL, NULL, 0, session[p].waited)
    /\ UNCHANGED <<auth, products, locations, stock_balances, stock_ledgers_archive, now>>

\* await db.commit(): the session's rows and balance writes become visible together
commit(p) ==
    /\ session[p].pc = "staged"
    /\ stock_ledgers' = stock_ledgers \cup SeqToSet(session[p].rows)
    /\ stock_balances' = Committed(stock_balances, session[p].pending)
    /\ session' = [session EXCEPT ![p] = IdleSession]
    /\ LET r == session[p].rows[Len(session[p].rows)]
       IN last' = Answer(session[p].op, "200", r.product_id, r.location_id,
                         IF Len(session[p].rows) = 2 THEN session[p].rows[1].location_id ELSE NULL,
                         r.qty, session[p].waited)
    /\ UNCHANGED <<auth, products, locations, stock_ledgers_archive, now>>

\* the request is cancelled or its connection is lost before COMMIT: closing
\* the session rolls the transaction back
abandon(p) ==
    /\ session[p].pc \in {"staged", "blocked"}
    /\ session' = [session EXCEPT ![p] = IdleSession]
    /\ LET r == session[p].rows[Len(session[p].rows)]
       IN last' = Answer(session[p].op, "abandoned", r.product_id, r.location_id, NULL, r.qty,
                         session[p].waited)
    /\ UNCHANGED <<auth, db, now>>

(***************************************************************************)
(* POST /stock-movements/ (app/routers/inventory.py create_stock_movement).*)
(***************************************************************************)
\* the keyword arguments the handler passes to StockLedger(...)
MovementKwargs ==
    {"id", "product_id", "location_id", "transaction_type", "quantity", "reference_type",
     "reference_id", "notes"}

\* variant: the exception is swallowed and success is answered
StockMovementFailed_swallowed(p, movement) ==
    /\ last' = Answer("create_stock_movement", "200", movement.product_id,
                      movement.to_location_id, movement.from_location_id, movement.quantity, FALSE)
    /\ UNCHANGED <<auth, db, session, now>>

\* except Exception: await db.rollback(); raise HTTPException(status_code=400)
StockMovementFailed(p, movement) ==
    /\ last' = Answer("create_stock_movement", "400", movement.product_id,
                      movement.to_location_id, movement.from_location_id, movement.quantity, FALSE)
    /\ UNCHANGED <<auth, db, session, now>>

create_stock_movement(p, movement) ==
    /\ session[p].pc = "idle"
    /\ IF ~StockMovementRequestValid(movement)
       THEN /\ last' = Answer("create_stock_movement", "422", movement.product_id,
                              movement.to_location_id, movement.from_location_id,
                              movement.quantity, FALSE)
            /\ UNCHANGED <<auth, db, session, now>>
       ELSE IF ~StockLedgerInit(MovementKwargs)
       THEN \* TypeError raised inside the try block
            StockMovementFailed(p, movement)
       ELSE LET out_id == uuid4(UsedIds)
                in_id == uuid4(UsedIds \cup (IF movement.from_location_id # NULL
                                             THEN {out_id} ELSE {}))
                \* each leg draws its own reference_id = str(uuid.uuid4())
                out_ledger == StockLedger(out_id, movement.product_id, movement.from_location_id,
                                          -movement.quantity, "OUT", "STOCK_MOVEMENT", out_id)
                in_ledger == StockLedger(in_id, movement.product_id, movement.to_location_id,
                                         movement.quantity, "IN", "STOCK_MOVEMENT", in_id)
                ledger_entries == IF movement.from_location_id # NULL
                                  THEN <<out_ledger, in_ledger>> ELSE <<in_ledger>>
            IN IF \E r \in SeqToSet(ledger_entries) : ~ForeignKeysHold(r)
               THEN \* IntegrityError at flush
                    StockMovementFailed(p, movement)
               ELSE /\ Cardinality(UsedIds) + Len(ledger_entries) <= MaxEntries
                    /\ Flush(p, "create_stock_movement", ledger_entries)
                    /\ UNCHANGED <<auth, db, now, last>>

(***************************************************************************)
(* scripts/prod/cleanup_old_data.py DataCleaner.archive_old_stock_ledgers, *)
(* run from its first statement to its commit with no other session        *)
(* committing in between.                                                  *)
(***************************************************************************)
archive_old_stock_ledgers(dry_run, days_to_keep) ==
    LET cutoff_date == now - days_to_keep
        old == {e \in stock_ledgers : e.created_at < cutoff_date}
    IN IF old = {}
       THEN /\ last' = Answer("archive_old_stock_ledgers", "nothing_old", NULL, NULL, NULL, 0, FALSE)
            /\ UNCHANGED <<auth, db, session, now>>
       ELSE IF dry_run
       THEN /\ last' = Answer("archive_old_stock_ledgers", "dry_run", NULL, NULL, NULL, 0, FALSE)
            /\ UNCHANGED <<auth, db, session, now>>
       ELSE /\ stock_ledgers_archive' = stock_ledgers_archive \cup old
            /\ stock_ledgers' = stock_ledgers \ old
            /\ last' = Answer("archive_old_stock_ledgers", "archived", NULL, NULL, NULL, 0, FALSE)
            /\ UNCHANGED <<auth, products, locations, stock_balances, session, now>>

(***************************************************************************)
(* scripts/prod/cleanup_old_data.py run_cleanup, statement by statement.   *)
(* The script's session runs at READ COMMITTED: every statement sees the   *)
(* rows committed when it starts.  Of the tasks of run_cleanup only the    *)
(* stock-ledger archive touches the inventory tables; optimize_database    *)
(* runs ANALYZE, and only when not dry_run.                                *)
(***************************************************************************)
\* what `last` keeps of a run of the script
CleanupAnswer(status, dry_run) ==
    [op |-> "run_cleanup", status |-> status, product_id |-> NULL, location_id |-> NULL,
     from_location_id |-> NULL, qty |-> 0, waited |-> FALSE, dry_run |-> dry_run]

\* the session of the script between two statements of the archive
ArchiveSession(pc, dry_run, cutoff_date, copied, deleted) ==
    [pc |-> pc, op |-> "archive_old_stock_ledgers", rows |-> <<>>, pending |-> <<>>,
     waited |-> FALSE, dry_run |-> dry_run, cutoff_date |-> cutoff_date, copied |-> copied,
     deleted |-> deleted]

\* WHERE created_at < :cutoff_date, on the rows committed now
OldEntries(cutoff_date) == {e \in stock_ledgers : e.created_at < cutoff_date}

\* variant: the archive goes on whether or not this is a dry run
run_cleanup_always(p, dry_run, stock_ledgers_days) ==
    /\ session[p].pc = "idle"
    /\ IF stock_ledgers_days <= 0
       THEN /\ last' = CleanupAnswer("skipped", dry_run)
            /\ UNCHANGED <<auth, db, session, now>>
       ELSE IF OldEntries(now - stock_ledgers_days) = {}
       THEN /\ last' = CleanupAnswer("nothing_old", dry_run)
            /\ UNCHANGED <<auth, db, session, now>>
       ELSE /\ session' = [session EXCEPT ![p] =
                    ArchiveSession("archive_counted", dry_run, now - stock_ledgers_days, {}, {})]
            /\ UNCHANGED <<auth, db, now, last>>

\* run_cleanup up to the count of the old entries: the archive is skipped
\* unless options["stock_ledgers"] > 0, returns when nothing is old, and stops
\* after the count on a dry run
run_cleanup(p, dry_run, stock_ledgers_days) ==
    /\ session[p].pc = "idle"
    /\ IF stock_ledgers_days <= 0
       THEN /\ last' = CleanupAnswer("skipped", dry_run)
            /\ UNCHANGED <<auth, db, session, now>>
       ELSE IF OldEntries(now - stock_ledgers_days) = {}
       THEN /\ last' = CleanupAnswer("nothing_old", dry_run)
            /\ UNCHANGED <<auth, db, session, now>>
       ELSE IF dry_run
       THEN /\ last' = CleanupAnswer("dry_run", dry_run)
            /\ UNCHANGED <<auth, db, session, now>>
       ELSE /\ session' = [session EXCEPT ![p] =
                    ArchiveSession("archive_counted", dry_run, now - stock_ledgers_days, {}, {})]
            /\ UNCHANGED <<auth, db, now, last>>

\* CREATE TABLE IF NOT EXISTS stock_ledgers_archive; INSERT INTO
\* stock_ledgers_archive SELECT * FROM stock_ledgers WHERE created_at < cutoff
archive_insert(p) ==
    /\ session[p].pc = "archive_counted"
    /\ session' = [session EXCEPT ![p].pc = "archive_inserted",
                                  ![p].copied = OldEntries(session[p].cutoff_date)]
    /\ UNCHANGED <<auth, db, now, last>>

\* DELETE FROM stock_ledgers WHERE created_at < cutoff
archive_delete(p) ==
    /\ session[p].pc = "archive_inserted"
    /\ session' = [session EXCEPT ![p].pc = "archive_deleted",
                                  ![p].deleted = OldEntries(session[p].cutoff_date)]
    /\ UNCHANGED <<auth, db, now, last>>

\* await db.commit()
archive_commit(p) ==
    /\ session[p].pc = "archive_deleted"
    /\ stock_ledgers_archive' = stock_ledgers_archive \cup session[p].copied
    /\ stock_ledgers' = stock_ledgers \ session[p].deleted
    /\ session' = [session EXCEPT ![p] = IdleSession]
    /\ last' = CleanupAnswer("archived", session[p].dry_run)
    /\ UNCHANGED <<auth, products, locations, stock_balances, now>>

\* except Exception: add_warning(...); return 0 -- the session is closed
\* without commit
archive_failed(p) ==
    /\ session[p].pc \in {"archive_counted", "archive_inserted", "archive_deleted"}
    /\ session' = [session EXCEPT ![p] = IdleSession]
    /\ last' = CleanupAnswer("failed", session[p].dry_run)
    /\ UNCHANGED <<auth, db, now>>

(***************************************************************************)
(* scripts/dev/clean_db.py clean_database: TRUNCATE ... CASCADE.           *)
(***************************************************************************)
\* TRUNCATE takes an exclusive lock: it waits for the open transactions
clean_database ==
    /\ \A p \in Procs : session[p].pc = "idle"
    /\ products' = {}
    /\ locations' = <<>>
    /\ stock_ledgers' = {}
    /\ stock_balances' = <<>>
    /\ last' = Answer("clean_database", "done", NULL, NULL, NULL, 0, FALSE)
    /\ UNCHANGED <<auth, stock_ledgers_archive, session, now>>

(***************************************************************************)
(* DELETE /products/{product_id} (app/routers/products.py delete_product). *)
(***************************************************************************)
\* variant: the product row is deleted whatever refers to it, and the delete
\* cascades to stock_balances
delete_product_unrestricted(product_id, referenced) ==
    IF product_id \notin products
    THEN /\ last' = Answer("delete_product", "404", NULL, NULL, NULL, 0, FALSE)
         /\ UNCHANGED <<auth, db, session, now>>
    ELSE /\ products' = products \ {product_id}
         /\ stock_balances' = [k \in {x \in DOMAIN stock_balances : x[1] # product_id} |->
                                    stock_balances[k]]
         /\ last' = Answer("delete_product", "204", NULL, NULL, NULL, 0, FALSE)
         /\ UNCHANGED <<auth, locations, stock_ledgers, stock_ledgers_archive, session, now>>

\* db.delete(product) un-links the loaded children first: it sets
\* stock_ledgers.product_id (NOT NULL) to NULL and refuses to blank the primary
\* key column stock_balances.product_id; either raises, as does a RESTRICT
\* reference from a BOM, a purchase order or a sales order (`referenced`).
\* The DELETE waits for the sessions that hold an uncommitted row of the product.
delete_product(product_id, referenced) ==
    /\ \A q \in Procs : \A r \in SeqToSet(session[q].rows) : r.product_id # product_id
    /\ IF product_id \notin products
       THEN /\ last' = Answer("delete_product", "404", NULL, NULL, NULL, 0, FALSE)
            /\ UNCHANGED <<auth, db, session, now>>
       ELSE IF \/ referenced
               \/ \E e \in stock_ledgers : e.product_id = product_id
               \/ \E k \in DOMAIN stock_balances : k[1] = product_id
       THEN \* except Exception: await db.rollback(); raise HTTPException(409)
            /\ last' = Answer("delete_product", "409", NULL, NULL, NULL, 0, FALSE)
            /\ UNCHANGED <<auth, db, session, now>>
       ELSE /\ products' = products \ {product_id}
            \* stock_balances.product_id: ondelete="CASCADE"
            /\ stock_balances' = [k \in {x \in DOMAIN stock_balances : x[1] # product_id} |->
                                       stock_balances[k]]
            /\ last' = Answer("delete_product", "204", NULL, NULL, NULL, 0, FALSE)
            /\ UNCHANGED <<auth, locations, stock_ledgers, stock_ledgers_archive, session, now>>

(***************************************************************************)
(* DELETE /locations/{location_id} (app/routers/warehouse.py): soft delete.*)
(***************************************************************************)
delete_location(location_id) ==
    IF location_id \notin DOMAIN locations
    THEN /\ last' = Answer("delete_location", "404", NULL, NULL, NULL, 0, FALSE)
         /\ UNCHANGED <<auth, db, session, now>>
    ELSE /\ locations' = [locations EXCEPT ![location_id].is_active = FALSE]
         /\ last' = Answer("delete_location", "200", NULL, NULL, NULL, 0, FALSE)
         /\ UNCHANGED <<auth, products, stock_ledgers, stock_balances, stock_ledgers_archive,
                        session, now>>

(***************************************************************************)
(* The read endpoints of app/routers/inventory.py.                         *)
(***************************************************************************)
\* what `last` keeps of a read: its query parameters and the response body
ReadAnswer(op, params, body) ==
    [op |-> op, status |-> "200", product_id |-> NULL, location_id |-> NULL,
     from_location_id |-> NULL, qty |-> 0, waited |-> FALSE, params |-> params, body |-> body]

\* the orders in which a SELECT can return the rows of S
Perms(S) ==
    {f \in [1..Cardinality(S) -> S] : \A i, j \in 1..Cardinality(S) : i # j => f[i] # f[j]}

Min(a, b) == IF a < b THEN a ELSE b

\* .offset(skip).limit(limit)
Page(rows, skip, limit) == SubSeq(rows, skip + 1, Min(Len(rows), skip + limit))

\* schema StockBalance (response_model): current_qty: int = Field(ge=0)
StockBalanceSchema(k) ==
    [product_id |-> k[1], location_id |-> k[2], current_qty |-> stock_balances[k].current_qty,
     last_updated |-> stock_balances[k].last_updated]

\* variant: the listing stamps last_updated of the rows it returns
get_stock_balances_touch(product_id, location_id, skip, limit) ==
    LET matching == {k \in DOMAIN stock_balances :
                        /\ product_id # NULL => k[1] = product_id
                        /\ location_id # NULL => k[2] = location_id}
    IN \E rows \in Perms(matching) :
        /\ stock_balances' = [k \in DOMAIN stock_balances |->
                IF k \in SeqToSet(Page(rows, skip, limit))
                THEN [stock_balances[k] EXCEPT !.last_updated = now] ELSE stock_balances[k]]
        /\ last' = ReadAnswer("get_stock_balances",
                              [product_id |-> product_id, location_id |-> location_id,
                               skip |-> skip, limit |-> limit],
                              [i \in 1..Len(Page(rows, skip, limit)) |->
                                    StockBalanceSchema(Page(rows, skip, limit)[i])])
        /\ UNCHANGED <<auth, products, locations, stock_ledgers, stock_ledgers_archive, session, now>>

\* GET /stock-balances/: the optional filters, no ORDER BY, then the page;
\* model_validate raises on a row of negative current_qty, which nothing
\* catches
get_stock_balances(product_id, location_id, skip, limit) ==
    LET matching == {k \in DOMAIN stock_balances :
                        /\ product_id # NULL => k[1] = product_id
                        /\ location_id # NULL => k[2] = location_id}
    IN \E rows \in Perms(matching) :
        LET balances == Page(rows, skip, limit)
        IN /\ IF \E i \in 1..Len(balances) : stock_balances[balances[i]].current_qty < 0
              THEN last' = Answer("get_stock_balances", "500", NULL, NULL, NULL, 0, FALSE)
              ELSE last' = ReadAnswer("get_stock_balances",
                                      [product_id |-> product_id, location_id |-> location_id,
                                       skip |-> skip, limit |-> limit],
                                      [i \in 1..Len(balances) |-> StockBalanceSchema(balances[i])])
           /\ UNCHANGED <<auth, db, session, now>>

\* GET /stock-ledgers/: the optional filters, ORDER BY created_at DESC and
\* nothing else, so rows of equal created_at come in any order
get_stock_ledgers(product_id, location_id, transaction_type, skip, limit) ==
    LET matching == {e \in stock_ledgers :
                        /\ product_id # NULL => e.product_id = product_id
                        /\ location_id # NULL => e.location_id = location_id
                        \* `if transaction_type:` the empty string filters nothing
                        /\ transaction_type # "" => e.transaction_type = transaction_type}
    IN \E rows \in Perms(matching) :
        /\ \A i, j \in 1..Len(rows) : i < j => rows[i].created_at >= rows[j].created_at
        /\ last' = ReadAnswer("get_stock_ledgers",
                              [product_id |-> product_id, location_id |-> location_id,
                               transaction_type |-> transaction_type, skip |-> skip,
                               limit |-> limit],
                              Page(rows, skip, limit))
        /\ UNCHANGED <<auth, db, session, now>>

\* select(StockBalance, ...).join(Product, ...).join(Location, ...): the
\* balance rows whose product row and location row exist
JoinedBalances ==
    {k \in DOMAIN stock_balances : k[1] \in products /\ k[2] \in DOMAIN locations}

\* "Assuming unit price of 100"
AssumedUnitPrice == 100

\* schema InventoryReport, built from one joined row
InventoryReport(k) ==
    [product_id |-> k[1], location_id |-> k[2], current_qty |-> stock_balances[k].current_qty,
     last_updated |-> stock_balances[k].last_updated,
     total_value |-> stock_balances[k].current_qty * AssumedUnitPrice]

RECURSIVE SumCurrentQty(_)
SumCurrentQty(items) ==
    IF items = <<>> THEN 0 ELSE Head(items).current_qty + SumCurrentQty(Tail(items))

\* variant: `<` as in the inventory report's low-stock count
IsLowStock_lt(current_qty, threshold) == current_qty < threshold

\* .where(StockBalance.current_qty <= threshold)
IsLowStock(current_qty, threshold) == current_qty <= threshold

\* GET /reports/low-stock/: ORDER BY current_qty ASC, rows of equal quantity
\* in any order
get_low_stock_report(threshold) ==
    IF threshold < 0
    THEN \* threshold: int = Query(10, ge=0)
         /\ last' = Answer("get_low_stock_report", "422", NULL, NULL, NULL, 0, FALSE)
         /\ UNCHANGED <<auth, db, session, now>>
    ELSE
    LET low == {InventoryReport(k) : k \in {x \in JoinedBalances :
                                            IsLowStock(stock_balances[x].current_qty, threshold)}}
    IN \E low_stock_items \in Perms(low) :
        /\ \A i, j \in 1..Len(low_stock_items) :
                i < j => low_stock_items[i].current_qty <= low_stock_items[j].current_qty
        /\ last' = ReadAnswer("get_low_stock_report", [threshold |-> threshold], low_stock_items)
        /\ UNCHANGED <<auth, db, session, now>>

\* the inventory report counts as low stock what is below this quantity
LowStockLimit == 10

\* variant: the rows are counted, not the distinct products
total_products_rows(inventory_data) == Len(inventory_data)

\* len(set(item[0].product_id for item in inventory_data))
total_products(inventory_data) ==
    Cardinality({inventory_data[i].product_id : i \in 1..Len(inventory_data)})

\* len(set(item[0].location_id for item in inventory_data))
total_locations(inventory_data) ==
    Cardinality({inventory_data[i].location_id : i \in 1..Len(inventory_data)})

\* [item for item in inventory_data if item[0].current_qty < 10]
low_stock_items(inventory_data) ==
    Cardinality({i \in 1..Len(inventory_data) : inventory_data[i].current_qty < LowStockLimit})

\* variant: the low-stock condition copied into the out-of-stock count
out_of_stock_items_low(inventory_data) ==
    Cardinality({i \in 1..Len(inventory_data) : inventory_data[i].current_qty < LowStockLimit})

\* [item for item in inventory_data if item[0].current_qty == 0]
out_of_stock_items(inventory_data) ==
    Cardinality({i \in 1..Len(inventory_data) : inventory_data[i].current_qty = 0})

\* GET /reports/inventory/: no ORDER BY, the rows come in any order
get_inventory_report ==
    \E inventory_data \in Perms({InventoryReport(k) : k \in JoinedBalances}) :
        /\ last' = ReadAnswer("get_inventory_report", <<>>,
                [total_products |-> total_products(inventory_data),
                 total_locations |-> total_locations(inventory_data),
                 total_stock_value |-> SumCurrentQty(inventory_data),
                 low_stock_items |-> low_stock_items(inventory_data),
                 out_of_stock_items |-> out_of_stock_items(inventory_data),
                 report_data |-> inventory_data])
        /\ UNCHANGED <<auth, db, session, now>>

\* request bodies of POST /stock-ledgers/
StockLedgerCreate ==
    [product_id : ProductIds, location_id : LocationIds, qty : (-1)..MaxQty,
     transaction_type : TransactionTypeInputs, ref_type : {NULL}, ref_id : {NULL}]

\* request bodies of POST /stock-movements/
StockMovementRequest ==
    [product_id : ProductIds, to_location_id : LocationIds,
     from_location_id : {NULL} \cup LocationIds, quantity : (-1)..MaxQty]

\* the movement requests tried next to the other operations: a rejected one,
\* a stock-in and a transfer between the first and the last catalog location
MovementSample ==
    {m \in StockMovementRequest :
        /\ m.product_id = 1
        /\ m.to_location_id = NumLocations
        /\ m.from_location_id \in {NULL, 1}
        /\ m.quantity \in {0, 1}}

Next ==
    \/ Tick
    \/ \E p \in Procs : \E movement \in MovementSample : create_stock_movement(p, movement)
    \/ \E dry_run \in BOOLEAN : \E days_to_keep \in 1..MaxKeep :
            archive_old_stock_ledgers(dry_run, days_to_keep)
    \/ clean_database
    \/ \E p \in Procs : \E ledger \in StockLedgerCreate : create_stock_ledger(p, ledger)
    \/ \E p \in Procs : trigger_resume(p)
    \/ \E p \in Procs : commit(p)
    \/ \E p \in Procs : abandon(p)

Spec == Init /\ [][Next]_vars

(***************************************************************************)
(* The write path alone: concurrent POST /stock-ledgers/ requests.         *)
(***************************************************************************)
NextAppend ==
    \/ Tick
    \/ \E p \in Procs : \E ledger \in StockLedgerCreate : create_stock_ledger(p, ledger)
    \/ \E p \in Procs : trigger_resume(p)
    \/ \E p \in Procs : commit(p)
    \/ \E p \in Procs : abandon(p)

SpecAppend == Init /\ [][NextAppend]_vars

(***************************************************************************)
(* The movement endpoint over all its request bodies, next to appends.     *)
(***************************************************************************)
NextMove ==
    \/ \E p \in Procs : \E ledger \in StockLedgerCreate : create_stock_ledger(p, ledger)
    \/ \E p \in Procs : trigger_resume(p)
    \/ \E p \in Procs : commit(p)
    \/ \E p \in Procs : abandon(p)
    \/ \E p \in Procs : \E movement \in StockMovementRequest : create_stock_movement(p, movement)

SpecMove == Init /\ [][NextMove]_vars

(***************************************************************************)
(* The catalog next to the ledger: product deletion, location              *)
(* deactivation, the cleanup scripts and appends of one unit.              *)
(***************************************************************************)
\* the appends tried next to the catalog operations: receipts of one unit
LedgerSample == {ledger \in StockLedgerCreate : ledger.qty = 1}

NextCatalog ==
    \/ Tick
    \/ \E p \in Procs : \E ledger \in LedgerSample : create_stock_ledger(p, ledger)
    \/ \E p \in Procs : trigger_resume(p)
    \/ \E p \in Procs : commit(p)
    \/ \E p \in Procs : abandon(p)
    \/ \E dry_run \in BOOLEAN : \E days_to_keep \in 1..MaxKeep :
            archive_old_stock_ledgers(dry_run, days_to_keep)
    \/ clean_database
    \/ \E product_id \in ProductIds : \E referenced \in BOOLEAN :
            delete_product(product_id, referenced)
    \/ \E location_id \in LocationIds : delete_location(location_id)

SpecCatalog == Init /\ [][NextCatalog]_vars

(***************************************************************************)
(* Appends whose transaction_type is any string, next to movements.        *)
(***************************************************************************)
\* transaction_type: str accepts every string; "IN" is the one the movement
\* handler itself writes
TransactionTypeStrings == TransactionTypeInputs \cup {"IN"}

\* receipts of one unit under each of these transaction types
TypeSample ==
    [product_id : ProductIds, location_id : LocationIds, qty : {1},
     transaction_type : TransactionTypeStrings, ref_type : {NULL}, ref_id : {NULL}]

NextTypes ==
    \/ \E p \in Procs : \E ledger \in TypeSample : create_stock_ledger(p, ledger)
    \/ \E p \in Procs : trigger_resume(p)
    \/ \E p \in Procs : commit(p)
    \/ \E p \in Procs : abandon(p)
    \/ \E p \in Procs : \E movement \in MovementSample : create_stock_movement(p, movement)

SpecTypes == Init /\ [][NextTypes]_vars

(***************************************************************************)
(* The read endpoints next to one writer and the clock.                    *)
(***************************************************************************)
\* the session that writes while the reads are tried
Writer == CHOOSE p \in Procs : TRUE

\* the filters tried: none, the first product, the last catalog location, a
\* transaction type no row carries; the first and the second page
LedgerQuerySample ==
    [product_id : {NULL, 1}, location_id : {NULL, NumLocations},
     transaction_type : {"", "sale"}, skip : {0, 1}, limit : {1, MaxEntries}]

\* the balance filters tried: none, the first product, the last catalog
\* location; the first and the second page
BalanceQuerySample ==
    [product_id : {NULL, 1}, location_id : {NULL, NumLocations}, skip : {0, 1},
     limit : {1, MaxEntries}]

NextRead ==
    \/ Tick
    \/ \E q \in BalanceQuerySample :
            get_stock_balances(q.product_id, q.location_id, q.skip, q.limit)
    \/ \E ledger \in StockLedgerCreate : create_stock_ledger(Writer, ledger)
    \/ commit(Writer)
    \/ abandon(Writer)
    \/ \E q \in LedgerQuerySample :
            get_stock_ledgers(q.product_id, q.location_id, q.transaction_type, q.skip, q.limit)
    \/ \E threshold \in (-1)..MaxQty : get_low_stock_report(threshold)
    \/ get_inventory_report

SpecRead == Init /\ [][NextRead]_vars

(***************************************************************************)
(* The two low-stock views next to receipts around the low-stock limit.    *)
(***************************************************************************)
\* threshold: int = Query(10, ge=0): the threshold of a request that names none
DefaultThreshold == 10

\* receipts of one unit less than the low-stock limit and of exactly the limit
BulkSample ==
    {ledger \in [product_id : ProductIds, location_id : LocationIds,
                 qty : {LowStockLimit - 1, LowStockLimit},
                 transaction_type : TransactionTypeInputs, ref_type : {NULL}, ref_id : {NULL}] :
        TRUE}

NextLowStock ==
    \/ Tick
    \/ \E ledger \in BulkSample : create_stock_ledger(Writer, ledger)
    \/ commit(Writer)
    \/ abandon(Writer)
    \/ get_low_stock_report(DefaultThreshold)
    \/ get_inventory_report

SpecLowStock == Init /\ [][NextLowStock]_vars

(***************************************************************************)
(* The cleanup script next to concurrent appends of one unit.              *)
(***************************************************************************)
NextCleanup ==
    \/ Tick
    \/ \E p \in Procs : \E ledger \in LedgerSample : create_stock_ledger(p, ledger)
    \/ \E p \in Procs : trigger_resume(p)
    \/ \E p \in Procs : commit(p)
    \/ \E p \in Procs : abandon(p)
    \/ \E p \in Procs : \E dry_run \in BOOLEAN : \E stock_ledgers_days \in 0..MaxKeep :
            run_cleanup(p, dry_run, stock_ledgers_days)
    \/ \E p \in Procs : archive_insert(p)
    \/ \E p \in Procs : archive_delete(p)
    \/ \E p \in Procs : archive_commit(p)
    \/ \E p \in Procs : archive_failed(p)

SpecCleanup == Init /\ [][NextCleanup]_vars

(***************************************************************************)
(* Role based access control (app/services/bootstrap.py).                  *)
(***************************************************************************)
\* the code "module:action" of a permission
Code(module, action) == <<module, action>>

PERMISSION_CATALOG ==
    [products |-> {"create", "read", "update", "delete"},
     inventory |-> {"create", "read", "update", "delete", "adjust"},
     purchasing |-> {"create", "read", "update", "delete", "approve"},
     sales |-> {"create", "read", "update", "delete", "approve"},
     production |-> {"create", "read", "update", "delete", "release"},
     users |-> {"create", "read", "update", "delete", "assign_roles"},
     roles |-> {"create", "read", "update", "delete", "assign_permissions"}]

_all_permission_codes ==
    UNION {{Code(module, action) : action \in PERMISSION_CATALOG[module]} :
            module \in DOMAIN PERMISSION_CATALOG}

ROLE_PERMISSION_MAP ==
    [super_admin |-> _all_permission_codes,
     admin |-> _all_permission_codes \ {Code("users", "delete")},
     manager |-> {Code("products", "create"), Code("products", "read"), Code("products", "update"),
                  Code("inventory", "read"), Code("inventory", "adjust"),
                  Code("purchasing", "create"), Code("purchasing", "read"),
                  Code("purchasing", "update"), Code("purchasing", "approve"),
                  Code("sales", "create"), Code("sales", "read"), Code("sales", "update"),
                  Code("sales", "approve"),
                  Code("production", "create"), Code("production", "read"),
                  Code("production", "update"), Code("production", "release"),
                  Code("users", "read"), Code("roles", "read")},
     viewer |-> {Code(module, "read") : module \in DOMAIN PERMISSION_CATALOG}]

\* the codes linked to a role
PermissionsOf(links, role_name) == {l[2] : l \in {x \in links : x[1] = role_name}}

RECURSIVE SumOver(_, _)
SumOver(f, S) ==
    IF S = {} THEN 0
    ELSE LET x == CHOOSE y \in S : TRUE IN f[x] + SumOver(f, S \ {x})

SeedAnswer(permissions_created, roles_created, role_permission_links_added) ==
    [op |-> "seed_rbac", status |-> "ok", product_id |-> NULL, location_id |-> NULL,
     from_location_id |-> NULL, qty |-> 0, waited |-> FALSE,
     summary |-> [permissions_created |-> permissions_created,
                  roles_created |-> roles_created,
                  role_permission_links_added |-> role_permission_links_added]]

\* variant: every mapped code is appended to its role, linked already or not
seed_rbac_relink ==
    LET missing_codes == [role_name \in DOMAIN ROLE_PERMISSION_MAP |->
                            ROLE_PERMISSION_MAP[role_name]]
    IN /\ permissions' = permissions \cup _all_permission_codes
       /\ roles' = roles \cup DOMAIN ROLE_PERMISSION_MAP
       /\ role_permissions' = role_permissions \cup
                UNION {{<<r, c>> : c \in missing_codes[r]} : r \in DOMAIN missing_codes}
       /\ last' = SeedAnswer(Cardinality(_all_permission_codes \ permissions),
                             Cardinality(DOMAIN ROLE_PERMISSION_MAP \ roles),
                             SumOver([r \in DOMAIN missing_codes |-> Cardinality(missing_codes[r])],
                                     DOMAIN missing_codes))
       /\ UNCHANGED <<db, users, session, now>>

\* seed_rbac: one session, committed at its end; missing permissions, missing
\* roles and missing links are created, existing ones are left alone
seed_rbac ==
    LET missing_codes == [role_name \in DOMAIN ROLE_PERMISSION_MAP |->
                            ROLE_PERMISSION_MAP[role_name]
                                \ PermissionsOf(role_permissions, role_name)]
    IN /\ permissions' = permissions \cup _all_permission_codes
       /\ roles' = roles \cup DOMAIN ROLE_PERMISSION_MAP
       /\ role_permissions' = role_permissions \cup
                UNION {{<<r, c>> : c \in missing_codes[r]} : r \in DOMAIN missing_codes}
       /\ last' = SeedAnswer(Cardinality(_all_permission_codes \ permissions),
                             Cardinality(DOMAIN ROLE_PERMISSION_MAP \ roles),
                             SumOver([r \in DOMAIN missing_codes |-> Cardinality(missing_codes[r])],
                                     DOMAIN missing_codes))
       /\ UNCHANGED <<db, users, session, now>>

\* a row of table users with the names of its roles
User(username, email, is_active, deleted_at, user_roles) ==
    [username |-> username, email |-> email, is_active |-> is_active,
     deleted_at |-> deleted_at, roles |-> user_roles]

\* the primary keys a users row can get
UserIds == {"user-1", "user-2", "user-3", "user-4", "user-5"}

\* len(password) < 8
MinPasswordLength == 8

BootstrapAnswer(status, username, role_name) ==
    [op |-> "bootstrap_admin_user", status |-> status, product_id |-> NULL,
     location_id |-> NULL, from_location_id |-> NULL, qty |-> 0, waited |-> FALSE,
     username |-> username, role_name |-> role_name]

\* bootstrap_admin_user: an active user with one role, unless the password is
\* short, the role is missing or the username or email is taken
bootstrap_admin_user(username, email, password, role_name) ==
    /\ UserIds \ DOMAIN users # {}
    /\ IF \/ Len(password) < MinPasswordLength
          \/ role_name \notin roles
          \/ \E id \in DOMAIN users : users[id].username = username \/ users[id].email = email
       THEN /\ last' = BootstrapAnswer("BootstrapError", username, role_name)
            /\ UNCHANGED users
       ELSE LET id == CHOOSE x \in UserIds \ DOMAIN users : TRUE
            IN /\ users' = [x \in DOMAIN users \cup {id} |->
                                IF x = id THEN User(username, email, TRUE, NULL, {role_name})
                                ELSE users[x]]
               /\ last' = BootstrapAnswer("created", username, role_name)
    /\ UNCHANGED <<db, permissions, roles, role_permissions, session, now>>

(***************************************************************************)
(* Seeding: seed_rbac and bootstrap_admin_user on tables that hold nothing *)
(* or a part of the catalog.                                               *)
(***************************************************************************)
\* every link of the role-permission map
MappedLinks ==
    UNION {{<<role_name, code>> : code \in ROLE_PERMISSION_MAP[role_name]} :
            role_name \in DOMAIN ROLE_PERMISSION_MAP}

\* the links of the map between a role and a read permission
ReadLinks == {l \in MappedLinks : l[2][2] = "read"}

InitSeed ==
    /\ InitInventory
    /\ users = <<>>
    /\ permissions \in {{}, ROLE_PERMISSION_MAP.viewer, _all_permission_codes}
    /\ roles \in SUBSET DOMAIN ROLE_PERMISSION_MAP
    /\ role_permissions \in {{l \in links : l[1] \in roles /\ l[2] \in permissions} :
                                links \in {{}, ReadLinks}}

\* the passwords tried: one character short of the minimum, and the minimum
PasswordSample ==
    {[i \in 1..(MinPasswordLength - 1) |-> "x"], [i \in 1..MinPasswordLength |-> "x"]}

NextSeed ==
    \/ seed_rbac
    \/ \E username \in {"admin", "ops"} : \E email \in {"admin@example.com", "ops@example.com"} :
       \E password \in PasswordSample : \E role_name \in {"super_admin", "viewer"} :
            bootstrap_admin_user(username, email, password, role_name)

SpecSeed == InitSeed /\ [][NextSeed]_vars

(***************************************************************************)
(* Authentication and authorisation (app/core/security.py,                 *)
(* app/dependencies/auth.py) in front of the two ledger-writing routes.    *)
(***************************************************************************)
\* what decode_token raises
TokenError == [error |-> "TokenError"]

\* what get_current_user raises
credentials_exception == "401"

\* the strings uuid.UUID() parses: the keys of users rows and one more
Uuids == UserIds \cup {"user-0"}

\* decode_token: jwt.decode verifies signature and expiry; the subject must
\* be present and the type must be the expected one
decode_token(token, expected_type) ==
    IF ~token.signed THEN TokenError
    ELSE IF token.sub = "" THEN TokenError
    ELSE IF expected_type # "" /\ token.type # expected_type THEN TokenError
    ELSE [sub |-> token.sub, type |-> token.type]

\* variant: rows with deleted_at set are accepted
get_current_user_deleted(token) ==
    LET payload == decode_token(token, "access")
    IN IF payload = TokenError THEN credentials_exception
       ELSE IF payload.sub \notin Uuids THEN credentials_exception
       ELSE IF payload.sub \notin DOMAIN users THEN credentials_exception
       ELSE IF ~users[payload.sub].is_active THEN credentials_exception
       ELSE payload.sub

\* get_current_user: the id of the users row, or 401
get_current_user(token) ==
    LET payload == decode_token(token, "access")
    IN IF payload = TokenError THEN credentials_exception
       ELSE IF payload.sub \notin Uuids THEN credentials_exception
       ELSE IF payload.sub \notin DOMAIN users THEN credentials_exception
       ELSE IF ~users[payload.sub].is_active \/ users[payload.sub].deleted_at # NULL
       THEN credentials_exception
       ELSE payload.sub

\* permission_guard: the required codes are among the codes of the user's roles
permission_guard(required_permissions, current_user) ==
    LET user_permissions == UNION {PermissionsOf(role_permissions, role) :
                                    role \in users[current_user].roles}
    IN required_permissions \subseteq user_permissions

AuthAnswer(op, status, token) ==
    [op |-> op, status |-> status, product_id |-> NULL, location_id |-> NULL,
     from_location_id |-> NULL, qty |-> 0, waited |-> FALSE, token |-> token]

\* POST /stock-ledgers/ with its dependency require_permissions("inventory:create")
post_stock_ledgers(p, token, ledger) ==
    LET current_user == get_current_user(token)
    IN IF current_user = credentials_exception
       THEN /\ session[p].pc = "idle"
            /\ last' = AuthAnswer("create_stock_ledger", "401", token)
            /\ UNCHANGED <<db, auth, session, now>>
       ELSE IF ~permission_guard({Code("inventory", "create")}, current_user)
       THEN /\ session[p].pc = "idle"
            /\ last' = AuthAnswer("create_stock_ledger", "403", token)
            /\ UNCHANGED <<db, auth, session, now>>
       ELSE create_stock_ledger(p, ledger)

\* POST /stock-movements/ with its dependency require_permissions("inventory:create")
post_stock_movements(p, token, movement) ==
    LET current_user == get_current_user(token)
    IN IF current_user = credentials_exception
       THEN /\ session[p].pc = "idle"
            /\ last' = AuthAnswer("create_stock_movement", "401", token)
            /\ UNCHANGED <<db, auth, session, now>>
       ELSE IF ~permission_guard({Code("inventory", "create")}, current_user)
       THEN /\ session[p].pc = "idle"
            /\ last' = AuthAnswer("create_stock_movement", "403", token)
            /\ UNCHANGED <<db, auth, session, now>>
       ELSE create_stock_movement(p, movement)

\* bearer tokens: signature and expiry good or not, access or refresh type,
\* and a subject that is missing, malformed, unknown or the key of a user
Token ==
    [signed : BOOLEAN, type : {"access", "refresh"},
     sub : {"", "not-a-uuid"} \cup Uuids]

\* the tokens tried: the good access token of every subject, and the
\* administrator's token with a bad signature or of refresh type
Tokens ==
    {token \in Token : (token.signed /\ token.type = "access") \/ token.sub = "user-1"}

\* users of every kind: an administrator, a manager, an inactive and a
\* soft-deleted administrator, and a user without a role
UserSample ==
    [id \in UserIds |->
        IF id = "user-1" THEN User("ana", "ana@example.com", TRUE, NULL, {"admin"})
        ELSE IF id = "user-2" THEN User("budi", "budi@example.com", TRUE, NULL, {"manager", "viewer"})
        ELSE IF id = "user-3" THEN User("citra", "citra@example.com", FALSE, NULL, {"admin"})
        ELSE IF id = "user-4" THEN User("dewi", "dewi@example.com", TRUE, MaxTime, {"super_admin"})
        ELSE User("eko", "eko@example.com", TRUE, NULL, {})]

\* the seeded roles and permissions, and the users of UserSample
InitAuth ==
    /\ InitInventory
    /\ permissions = _all_permission_codes
    /\ roles = DOMAIN ROLE_PERMISSION_MAP
    /\ role_permissions = MappedLinks
    /\ users = UserSample

NextAuth ==
    \/ \E token \in Tokens : \E ledger \in LedgerSample : post_stock_ledgers(Writer, token, ledger)
    \/ \E token \in Tokens : \E movement \in MovementSample :
            post_stock_movements(Writer, token, movement)
    \/ commit(Writer)
    \/ abandon(Writer)

SpecAuth == InitAuth /\ [][NextAuth]_vars

(***************************************************************************)
(* Properties.                                                             *)
(***************************************************************************)
\* rows that become visible in a step
NewRows == stock_ledgers' \ stock_ledgers

\* a step in which create_stock_movement answers a request
MovementAnswered == last'.op = "create_stock_movement" /\ last' # last

\* the answered movement is a transfer of a positive quantity that names an
\* existing product, an existing source and an existing destination
WellFormedTransfer ==
    /\ MovementAnswered
    /\ last'.qty > 0
    /\ last'.from_location_id # NULL
    /\ last'.product_id \in products
    /\ last'.from_location_id \in DOMAIN locations
    /\ last'.location_id \in DOMAIN locations

\* C1: sum law. For every (product, location) pair with at least one ledger
\* row, the pair has a balance row whose current_qty is the sum of the
\* quantities of the pair's ledger rows.
SumLaw ==
    \A k \in Keys :
        RowsOf(stock_ledgers, k) # {} =>
            /\ k \in DOMAIN stock_balances
            /\ stock_balances[k].current_qty = SumQty(RowsOf(stock_ledgers, k))

\* C2: append-only ledger. A row of stock_ledgers is still a row of
\* stock_ledgers, with the same fields, after every step.
AppendOnly == [][\A e \in stock_ledgers : e \in stock_ledgers']_vars

\* C3: movement all-or-nothing. When create_stock_movement answers, either it
\* answers success and every staged row and balance write of its session is
\* visible, or it answers a failure and the ledger and the balances are as
\* before.
MovementAllOrNothing ==
    [][MovementAnswered =>
        IF last'.status = "200"
        THEN \E p \in Procs :
                /\ session[p].pc = "staged" /\ session'[p].pc = "idle"
                /\ SeqToSet(session[p].rows) \subseteq stock_ledgers'
                /\ \A k \in DOMAIN session[p].pending :
                        k \in DOMAIN stock_balances' /\ stock_balances'[k] = session[p].pending[k]
        ELSE /\ last'.status \in {"400", "422", "abandoned"}
             /\ UNCHANGED <<stock_ledgers, stock_balances, stock_ledgers_archive>>]_vars

\* a transfer was answered with a failure while stock was on the books
MovementAllOrNothingWitness ==
    /\ last.op = "create_stock_movement"
    /\ last.status = "400"
    /\ last.from_location_id # NULL
    /\ stock_ledgers # {}
    /\ \E p \in Procs : session[p].pc = "staged"

\* C4: no lost updates. Whatever the interleaving of the concurrent appends,
\* the balance of every key is the sum of the quantities of all rows committed
\* for the key (zero when there is none).
NoLostUpdates ==
    \A k \in Keys : BalQty(stock_balances, k) = SumQty(RowsOf(stock_ledgers, k))

\* NumProcs appends to one key were in flight together and all committed
NoLostUpdatesWitness ==
    /\ last.status = "200" /\ last.waited
    /\ \E k \in Keys :
        /\ Cardinality(RowsOf(stock_ledgers, k)) >= 2
        /\ \A e \in RowsOf(stock_ledgers, k) : e.qty > 0
        /\ BalQty(stock_balances, k) = SumQty(RowsOf(stock_ledgers, k))

\* C5: append and apply are one unit. In every step the change of each
\* balance is the sum of the quantities of the ledger rows that become visible
\* for its key in that step, every row that becomes visible has its balance
\* row, and an abandoned request leaves ledger and balances as they were.
AtomicUnit ==
    [][/\ \A k \in DOMAIN stock_balances' :
            BalQty(stock_balances', k) - BalQty(stock_balances, k) = SumQty(RowsOf(NewRows, k))
       /\ \A e \in NewRows : KeyOf(e) \in DOMAIN stock_balances'
       /\ (last'.status = "abandoned" /\ last' # last) =>
            UNCHANGED <<stock_ledgers, stock_balances>>]_vars

\* a request staged after stock was booked was abandoned before commit
AtomicUnitWitness ==
    /\ last.status = "abandoned"
    /\ stock_ledgers # {}
    /\ \E k \in DOMAIN stock_balances : stock_balances[k].current_qty > 0

\* C6: a transfer adds two ledger rows. When a well-formed transfer is
\* answered, exactly two rows become visible: one at the source with
\* quantity -q, one at the destination with quantity +q, both with the same
\* reference id.
TransferWritesTwoLegs ==
    [][WellFormedTransfer =>
        /\ Cardinality(NewRows) = 2
        /\ \E o, i \in NewRows :
            /\ o # i
            /\ o.product_id = last'.product_id /\ i.product_id = last'.product_id
            /\ o.location_id = last'.from_location_id /\ o.qty = -last'.qty
            /\ i.location_id = last'.location_id /\ i.qty = last'.qty
            /\ o.ref_id = i.ref_id /\ o.ref_id # NULL]_vars

\* C7: a transfer moves the balances. When a well-formed transfer between two
\* different locations is answered and the source holds at least q, the
\* source balance is q lower, the destination balance is q higher and every
\* other balance is unchanged.
TransferMovesBalances ==
    [][(/\ WellFormedTransfer
        /\ last'.from_location_id # last'.location_id
        /\ BalQty(stock_balances, <<last'.product_id, last'.from_location_id>>) >= last'.qty) =>
        \A k \in Keys :
            BalQty(stock_balances', k) =
                BalQty(stock_balances, k)
                + (IF k = <<last'.product_id, last'.location_id>> THEN last'.qty ELSE 0)
                - (IF k = <<last'.product_id, last'.from_location_id>> THEN last'.qty ELSE 0)]_vars

\* C8: applying a row. The balance row an inserting session has written for a
\* key carries current_qty = d when the key had no committed balance row, and
\* the committed current_qty plus d otherwise, d being the quantity of the
\* inserted row; its last_updated is the row's created_at.
ApplyCreatesOrIncrements ==
    \A p \in Procs :
        (session[p].pc = "staged" /\ Len(session[p].rows) = 1) =>
            LET r == session[p].rows[1]
                k == KeyOf(r)
            IN /\ DOMAIN session[p].pending = {k}
               /\ session[p].pending[k].last_updated = r.created_at
               /\ session[p].pending[k].current_qty =
                    IF k \in DOMAIN stock_balances
                    THEN stock_balances[k].current_qty + r.qty
                    ELSE r.qty

\* a row of positive quantity was applied to a key that has a positive balance
ApplyCreatesOrIncrementsWitness ==
    \E p \in Procs :
        /\ session[p].pc = "staged"
        /\ session[p].rows[1].qty > 0
        /\ KeyOf(session[p].rows[1]) \in DOMAIN stock_balances
        /\ stock_balances[KeyOf(session[p].rows[1])].current_qty > 0

\* C9: a movement with quantity <= 0 is answered with the validation error
\* and leaves ledger, balances, archive and every session as they were.
NonPositiveMovementRejected ==
    [][(MovementAnswered /\ last'.qty <= 0) =>
        /\ last'.status = "422"
        /\ UNCHANGED <<stock_ledgers, stock_balances, stock_ledgers_archive, session>>]_vars

\* a movement of quantity zero was rejected while stock was on the books
NonPositiveMovementRejectedWitness ==
    /\ last.op = "create_stock_movement"
    /\ last.qty = 0
    /\ last.status = "422"
    /\ stock_ledgers # {}

\* C10: no row of quantity zero is ever persisted in stock_ledgers.
NoZeroQuantityRow == \A e \in stock_ledgers : e.qty # 0

\* C13: a single-location movement. When a movement without a source
\* location, of quantity q > 0, naming an existing product and an existing
\* location is answered, exactly one row becomes visible, with quantity +q at
\* the named location, and the balance of that key alone rises by q. (The
\* request has no direction field: a movement without a source is a stock-in.)
SingleLocationMovementWritesOneLeg ==
    [][(/\ MovementAnswered
        /\ last'.qty > 0
        /\ last'.from_location_id = NULL
        /\ last'.product_id \in products
        /\ last'.location_id \in DOMAIN locations) =>
        /\ Cardinality(NewRows) = 1
        /\ \E e \in NewRows :
            /\ e.product_id = last'.product_id
            /\ e.location_id = last'.location_id
            /\ e.qty = last'.qty
        /\ \A k \in Keys :
            BalQty(stock_balances', k) =
                BalQty(stock_balances, k)
                + (IF k = <<last'.product_id, last'.location_id>> THEN last'.qty ELSE 0)]_vars

\* C14: sole writer of balances. In every step, a balance row that is
\* created, changed or removed belongs to a key for which a ledger row becomes
\* visible in that step: no operation writes or deletes a balance row except
\* by applying a ledger entry.
SoleWriterOfBalances ==
    [][\A k \in Keys :
        (\/ (k \in DOMAIN stock_balances) # (k \in DOMAIN stock_balances')
         \/ /\ k \in DOMAIN stock_balances
            /\ k \in DOMAIN stock_balances'
            /\ stock_balances[k] # stock_balances'[k])
            => RowsOf(NewRows, k) # {}]_vars

\* C15: a balance row is not deleted while its pair has a ledger entry. In
\* every step, a key that has a balance row before the step and a ledger row
\* after it still has its balance row after it.
BalanceKeptWhileLedgerExists ==
    [][\A k \in DOMAIN stock_balances :
        RowsOf(stock_ledgers', k) # {} => k \in DOMAIN stock_balances']_vars

\* the deletion of a product with stock on the books at a deactivated
\* location was refused: ledger row and balance row are still there
BalanceKeptWhileLedgerExistsWitness ==
    /\ last.op = "delete_product"
    /\ last.status = "409"
    /\ \E k \in DOMAIN stock_balances :
        /\ RowsOf(stock_ledgers, k) # {}
        /\ k[1] \in products
        /\ ~locations[k[2]].is_active

\* C16: closed set of transaction types. Every row of stock_ledgers has a
\* transaction_type of the enumeration TransactionType; a request that would
\* record another one writes nothing.
TransactionTypeClosed == \A e \in stock_ledgers : e.transaction_type \in TransactionType

\* the statuses that tell the caller its request named something wrong
ClientErrors == {"400", "404", "409", "422"}

\* a step in which a schema-valid append or movement that names a product or
\* a location that does not exist is answered
UnknownReferenceAnswered ==
    /\ last' # last
    /\ last'.op \in {"create_stock_ledger", "create_stock_movement"}
    /\ last'.product_id # NULL
    /\ last'.op = "create_stock_movement" => last'.qty > 0
    /\ \/ last'.product_id \notin products
       \/ last'.location_id \notin DOMAIN locations
       \/ last'.from_location_id # NULL /\ last'.from_location_id \notin DOMAIN locations

\* C17: unknown references. An append or movement that names a product or a
\* location that does not exist is answered with an error that reports the
\* bad reference to the caller, and ledger, balances and archive stay as they
\* were.
UnknownReferenceReported ==
    [][UnknownReferenceAnswered =>
        /\ last'.status \in ClientErrors
        /\ UNCHANGED <<stock_ledgers, stock_balances, stock_ledgers_archive>>]_vars

\* a step in which the read endpoint `op` answers with a body
ReadAnswered(op) == last' # last /\ last'.op = op /\ last'.status = "200"

\* C18: ledger listing. The listing answers with the rows that match every
\* supplied filter, ordered by created_at (descending, the one direction the
\* endpoint has) and, among rows of equal created_at, by id; the page asked
\* for is cut from that one sequence.
LedgerListingOrdered ==
    [][ReadAnswered("get_stock_ledgers") =>
        LET q == last'.params
            matching == {e \in stock_ledgers :
                            /\ q.product_id # NULL => e.product_id = q.product_id
                            /\ q.location_id # NULL => e.location_id = q.location_id
                            /\ q.transaction_type # "" => e.transaction_type = q.transaction_type}
        IN \E sorted \in Perms(matching) :
            /\ \A i, j \in 1..Len(sorted) :
                    i < j => \/ sorted[i].created_at > sorted[j].created_at
                             \/ /\ sorted[i].created_at = sorted[j].created_at
                                /\ sorted[i].id < sorted[j].id
            /\ last'.body = Page(sorted, q.skip, q.limit)]_vars

\* C19: low-stock listing. For threshold t the listing answers with exactly
\* the balance rows whose current_qty <= t, each once and with its current
\* quantity, in ascending order of current_qty.
LowStockListing ==
    [][ReadAnswered("get_low_stock_report") =>
        LET t == last'.params.threshold
            body == last'.body
            low == {k \in DOMAIN stock_balances : stock_balances[k].current_qty <= t}
        IN /\ {KeyOf(body[i]) : i \in 1..Len(body)} = low
           /\ Len(body) = Cardinality(low)
           /\ \A i \in 1..Len(body) :
                body[i].current_qty = stock_balances[KeyOf(body[i])].current_qty
           /\ \A i, j \in 1..Len(body) : i < j => body[i].current_qty <= body[j].current_qty]_vars

\* the listing answered with two balances of different quantity, the larger
\* one exactly at the threshold
LowStockListingWitness ==
    /\ last.op = "get_low_stock_report"
    /\ last.status = "200"
    /\ Len(last.body) = 2
    /\ last.body[1].current_qty < last.body[2].current_qty
    /\ last.body[2].current_qty = last.params.threshold

RECURSIVE UnitsOnHand(_, _)
UnitsOnHand(bal, keys) ==
    IF keys = {} THEN 0
    ELSE LET k == CHOOSE x \in keys : TRUE
         IN bal[k].current_qty + UnitsOnHand(bal, keys \ {k})

\* C20: inventory summary. The summary answers with the number of distinct
\* products and of distinct locations that have a balance row, and with the
\* sum of current_qty over all balance rows as its total.
InventorySummaryTotals ==
    [][ReadAnswered("get_inventory_report") =>
        /\ last'.body.total_products = Cardinality({k[1] : k \in DOMAIN stock_balances})
        /\ last'.body.total_locations = Cardinality({k[2] : k \in DOMAIN stock_balances})
        /\ last'.body.total_stock_value =
                UnitsOnHand(stock_balances, DOMAIN stock_balances)]_vars

\* the summary answered while one product had stock at two locations
InventorySummaryTotalsWitness ==
    /\ last.op = "get_inventory_report"
    /\ last.body.total_products = 1
    /\ last.body.total_locations = 2
    /\ last.body.total_stock_value >= 2
    /\ Len(last.body.report_data) = 2

\* C21: out-of-stock count. The inventory summary answers with an
\* out_of_stock_items equal to the number of balance rows whose current_qty
\* is exactly 0.
OutOfStockCount ==
    [][ReadAnswered("get_inventory_report") =>
        last'.body.out_of_stock_items =
            Cardinality({k \in DOMAIN stock_balances : stock_balances[k].current_qty = 0})]_vars

\* the summary answered while one balance was zero and another was not
OutOfStockCountWitness ==
    /\ last.op = "get_inventory_report"
    /\ last.body.out_of_stock_items = 1
    /\ Len(last.body.report_data) = 2
    /\ last.body.total_stock_value > 0

\* the read endpoints
ReadOperations ==
    {"get_stock_balances", "get_stock_ledgers", "get_inventory_report", "get_low_stock_report"}

\* C22: the reads are read-only. A step in which a read endpoint answers
\* leaves the ledger, the archive and every balance row as they were.
ReadsAreReadOnly ==
    [][(last' # last /\ last'.op \in ReadOperations) =>
        UNCHANGED <<stock_ledgers, stock_balances, stock_ledgers_archive>>]_vars

\* the balance listing answered with rows while stock was on the books
ReadsAreReadOnlyWitness ==
    /\ last.op = "get_stock_balances"
    /\ last.status = "200"
    /\ Len(last.body) = 2
    /\ stock_ledgers # {}

\* C23: created_at follows the order of insertion. A row that becomes
\* visible in a step has a created_at that is no earlier than that of every
\* row persisted before it, in the ledger or in the archive.
CreatedAtMonotone ==
    [][\A b \in NewRows : \A a \in stock_ledgers \cup stock_ledgers_archive :
            a.created_at <= b.created_at]_vars

\* C24: a dry run changes nothing. A run of the cleanup without --execute
\* answers after the count of the old entries at the latest, and leaves the
\* ledger, the archive and all balances as they were.
DryRunChangesNothing ==
    [][/\ (last'.op = "run_cleanup" /\ last' # last /\ last'.dry_run) =>
            /\ UNCHANGED <<stock_ledgers, stock_ledgers_archive, stock_balances>>
            /\ last'.status \in {"skipped", "nothing_old", "dry_run"}
       /\ \A p \in Procs :
            session'[p].op = "archive_old_stock_ledgers" => ~session'[p].dry_run]_vars

\* a dry run counted an old entry and left it in the ledger
DryRunChangesNothingWitness ==
    /\ last.op = "run_cleanup"
    /\ last.dry_run
    /\ last.status = "dry_run"
    /\ \E e \in stock_ledgers : e.created_at < now
    /\ stock_ledgers_archive = {}

\* a step in which the live archive of session p commits
ArchiveCommits(p) ==
    /\ session[p].pc = "archive_deleted"
    /\ session'[p].pc = "idle"
    /\ last'.status = "archived"

\* C25: the live archive moves the old entries. When the archive commits, the
\* entries that leave stock_ledgers are exactly the entries that enter
\* stock_ledgers_archive, all of them older than the cutoff and among them
\* every entry its INSERT selected; when it fails, neither table changes. In
\* both cases the entries of ledger and archive together are the same as
\* before, none of them in both tables. (An old entry that another session
\* commits after the DELETE has run is not expected to move.)
ArchiveMovesOldEntries ==
    [][\A p \in Procs :
        /\ ArchiveCommits(p) =>
            /\ stock_ledgers \ stock_ledgers' = stock_ledgers_archive' \ stock_ledgers_archive
            /\ \A e \in stock_ledgers \ stock_ledgers' : e.created_at < session[p].cutoff_date
            /\ session[p].copied \subseteq stock_ledgers_archive'
            /\ stock_ledgers' \cap stock_ledgers_archive' = {}
            /\ stock_ledgers' \cup stock_ledgers_archive'
                    = stock_ledgers \cup stock_ledgers_archive
        /\ (session[p].op = "archive_old_stock_ledgers" /\ last'.status = "failed"
                /\ session'[p].pc = "idle") =>
            UNCHANGED <<stock_ledgers, stock_ledgers_archive>>]_vars
LowStockViewsAgree ==
    \A inventory_data \in Perms({InventoryReport(k) : k \in JoinedBalances}) :
        low_stock_items(inventory_data) =
            Cardinality({k \in JoinedBalances :
                            IsLowStock(stock_balances[k].current_qty, DefaultThreshold)})
\* C30: seed_rbac is idempotent. A run of seed_rbac that directly follows
\* another run answers with a summary of zeros and leaves the permissions,
\* the roles and the role-permission links as the earlier run left them.
SeedIdempotent ==
    [][(last.op = "seed_rbac" /\ last'.op = "seed_rbac") =>
        /\ last'.summary = [permissions_created |-> 0, roles_created |-> 0,
                            role_permission_links_added |-> 0]
        /\ UNCHANGED <<permissions, roles, role_permissions>>]_vars

\* a run has answered with zeros: the tables of every initial state lack at
\* least one link, so an earlier run has filled them
SeedIdempotentWitness ==
    /\ last.op = "seed_rbac"
    /\ last.summary.permissions_created = 0
    /\ last.summary.roles_created = 0
    /\ last.summary.role_permission_links_added = 0
    /\ MappedLinks \subseteq role_permissions
\* the token resolves to an existing user that is active, not soft-deleted
\* and holds inventory:create through one of their roles
Entitled(token) ==
    /\ token.signed
    /\ token.type = "access"
    /\ token.sub \in DOMAIN users
    /\ users[token.sub].is_active
    /\ users[token.sub].deleted_at = NULL
    /\ \E role \in users[token.sub].roles :
            <<role, <<"inventory", "create">> >> \in role_permissions

\* C29: ledger writes are gated. A request to create_stock_ledger or
\* create_stock_movement whose token is not entitled is answered 401 or 403
\* and neither opens a database session nor changes the ledger, the balances
\* or any other table; the rows that are persisted come from the sessions of
\* entitled requests.
LedgerWritesGated ==
    [][\A token \in Tokens : ~Entitled(token) =>
        /\ \A ledger \in LedgerSample :
                post_stock_ledgers(Writer, token, ledger) =>
                    /\ UNCHANGED <<db, session>>
                    /\ last'.status \in {"401", "403"}
        /\ \A movement \in MovementSample :
                post_stock_movements(Writer, token, movement) =>
                    /\ UNCHANGED <<db, session>>
                    /\ last'.status \in {"401", "403"}]_vars

\* with an entry persisted for an entitled request, the request of an active
\* user whose roles lack inventory:create has been refused
LedgerWritesGatedWitness ==
    /\ stock_ledgers # {}
    /\ last.op = "create_stock_ledger"
    /\ last.status = "403"
    /\ last.token.sub \in DOMAIN users
    /\ users[last.token.sub].roles # {}
====
